---- MODULE Spec2Model ----
(***************************************************************************)
(* Lifecycle controller of the Jupyter Lab provisioning script             *)
(* (src/src/serverActions/manage.py) against the remote control plane.     *)
(*                                                                         *)
(* The remote platform (applications, volumes, machines) and the local     *)
(* access-record store are the state; every remote request the script      *)
(* issues is one step, so that an external actor can change the remote     *)
(* state between two requests of one operation.                            *)
(*                                                                         *)
(* The operations are modelled as the functions of the module, called with *)
(* app_name = FLY_APP_PREFIX + student_id, and the batch command as main   *)
(* runs it.  In the lifecycle (Spec) a request is modelled from the point   *)
(* where it is sent: what make_api_request does before (the credential     *)
(* check, the headers, the read of method.value) is not part of Request.   *)
(* RequestSpec follows one call of make_api_request step by step.          *)
(***************************************************************************)
EXTENDS Integers, Sequences, FiniteSets, TLC

(* ------------------------------------------------------------------ *)
(* Bounds of the model                                                  *)
(* ------------------------------------------------------------------ *)
\* process runs (invocations of an operation or of the batch command)
MaxRuns == 2
\* steps of the external actor (a human or another process)
MaxExternal == 1
\* lines of a batch file
MaxLines == 2
\* operations of a sequence of operations on one student
MaxOperations == 5

(* ------------------------------------------------------------------ *)
(* Configuration (environment-derived module globals)                   *)
(* ------------------------------------------------------------------ *)
FLY_APP_PREFIX == "jupyter-"
BASE_DOMAIN == "example.dev"

\* student identifiers the callers pass
StudentIds == {"bob"}

(* ------------------------------------------------------------------ *)
(* Text helpers: a line of a file is a sequence of characters           *)
(* ------------------------------------------------------------------ *)
Whitespace == {" ", "\n"}

RECURSIVE LStrip(_)
LStrip(s) ==
    IF s # <<>> /\ Head(s) \in Whitespace THEN LStrip(Tail(s)) ELSE s

RECURSIVE RStrip(_)
RStrip(s) ==
    IF s # <<>> /\ s[Len(s)] \in Whitespace
    THEN RStrip(SubSeq(s, 1, Len(s) - 1))
    ELSE s

\* str.strip()
Strip(s) == RStrip(LStrip(s))

\* str.startswith(c) for a one-character prefix
StartsWith(s, c) == s # <<>> /\ Head(s) = c

\* str.split(sep): every field, empty ones included
RECURSIVE Split(_, _)
Split(s, sep) ==
    IF \A i \in 1..Len(s) : s[i] # sep
    THEN <<s>>
    ELSE LET i == CHOOSE k \in 1..Len(s) :
                      s[k] = sep /\ \A j \in 1..(k - 1) : s[j] # sep
         IN  <<SubSeq(s, 1, i - 1)>> \o Split(SubSeq(s, i + 1, Len(s)), sep)

\* the string a sequence of characters spells
RECURSIVE Str(_)
Str(s) == IF s = <<>> THEN "" ELSE Head(s) \o Str(Tail(s))

\* the lines a batch file may hold
BatchLines ==
    { <<"b", "o", "b", ",", "s", "\n">>,
      <<",", "s", "\n">>,
      <<"b", "o", "b", "\n">>,
      <<"#", "x", "\n">> }

(* ------------------------------------------------------------------ *)
(* State                                                                *)
(* ------------------------------------------------------------------ *)
VARIABLES
    apps,           \* remote: names of the existing Applications, in creation order
    volumes,        \* remote: set of [app, name] volumes
    machines,       \* remote: sequence of [id, app, state, env] machines
    store,          \* local: student_id -> contents of access.json, or NoFile
    pc,             \* position of the running process
    cmd,            \* the command of the running process
    student_id,     \* local of the running operation
    app_name,       \* local of the running operation
    jupyter_token,  \* local of the running operation
    listed,         \* local: the machine list an operation fetched
    idx,            \* local: position of a loop over listed
    fileLen,        \* the number of lines of the batch file
    lineNo,         \* the number of lines of it read so far
    calls,          \* requests issued so far by the operation (for batch: for the line)
    out,            \* what the operation (for batch: the line) has printed so far
    exitCode,       \* -1 while running, else the exit status of the process
    runs,           \* process runs started
    ext,            \* steps the external actor has taken
    confirm,        \* local of delete_jupyter: the answer at the prompt
    environ,        \* the environment the module globals are read from
    rpc,            \* position of a call of make_api_request
    request,        \* the arguments of that call and the request built from them
    result          \* what the call returned or raised

vars == <<apps, volumes, machines, store, pc, cmd, student_id,
          app_name, jupyter_token, listed, idx, fileLen, lineNo, calls, out,
          exitCode,
          runs, ext, confirm, environ, rpc, request, result>>

remote == <<apps, volumes, machines>>
locals == <<student_id, app_name, jupyter_token, listed, idx, fileLen, lineNo>>
\* a call of make_api_request, step by step
wire == <<environ, rpc, request, result>>
\* the lifecycle: everything but wire
lifecycle == <<apps, volumes, machines, store, pc, cmd, student_id,
               app_name, jupyter_token, listed, idx, fileLen, lineNo, calls, out,
               exitCode, runs, ext, confirm>>

NoFile == <<>>
NoToken == ""

Token(n) == "tok" \o ToString(n)

(* ------------------------------------------------------------------ *)
(* Paths and payloads of the requests                                   *)
(* ------------------------------------------------------------------ *)
AppsPath == "/v1/apps"
AppPath(app) == "/v1/apps/" \o app
VolumesPath(app) == "/v1/apps/" \o app \o "/volumes"
MachinesPath(app) == "/v1/apps/" \o app \o "/machines"
MachineVerbPath(app, id, verb) ==
    "/v1/apps/" \o app \o "/machines/" \o id \o "/" \o verb

NoData == [none |-> TRUE]
AppData(app) == [name |-> app]
VolumeData(name) == [name |-> name, region |-> "iad"]
MachineData(token, sid) ==
    [name |-> FLY_APP_PREFIX \o "instance",
     env |-> [JUPYTER_TOKEN |-> token, STUDENT_ID |-> sid]]

\* the access URL without the base domain
AccessUrlNoDomain(app, token) == "https://" \o app \o "/lab?token=" \o token

AccessUrl(app, token) ==
    "https://" \o app \o "." \o BASE_DOMAIN \o "/lab?token=" \o token

\* the host part of the access URL of a student
HostOf(sid) == FLY_APP_PREFIX \o sid \o "." \o BASE_DOMAIN

(* ------------------------------------------------------------------ *)
(* The remote control plane                                             *)
(* ------------------------------------------------------------------ *)
AppExists(app) == \E i \in 1..Len(apps) : apps[i] = app
MachinesOf(app) == SelectSeq(machines, LAMBDA m : m.app = app)
MachineExists(app, id) ==
    \E i \in 1..Len(machines) : machines[i].app = app /\ machines[i].id = id
MachineId(n) == "m" \o ToString(n)

\* the id the platform gives a new machine: one no machine has, and none that an
\* operation still holds in the list it fetched (the first such id)
NewMachineId ==
    LET held == {machines[i].id : i \in 1..Len(machines)}
                \cup {listed[i].id : i \in {j \in 1..Len(listed) : cmd # "list"}}
        n == CHOOSE k \in 1..(Cardinality(held) + 1) :
                 /\ MachineId(k) \notin held
                 /\ \A j \in 1..(k - 1) : MachineId(j) \in held
    IN  MachineId(n)

\* The statuses a request can come back with: the platform's answer for the
\* state it is in, or 500 for a transport failure (the request had no effect).
TransportFailure == 500
GetAppReplies(app) ==
    (IF AppExists(app) THEN {200} ELSE {404}) \cup {TransportFailure}
CreateAppReplies(app) ==
    (IF AppExists(app) THEN {422} ELSE {201}) \cup {TransportFailure}
CreateVolumeReplies(app) ==
    (IF AppExists(app) THEN {200} ELSE {404}) \cup {TransportFailure}
CreateMachineReplies(app) ==
    (IF AppExists(app) THEN {200} ELSE {404}) \cup {TransportFailure}
ListMachinesReplies(app) ==
    (IF AppExists(app) THEN {200} ELSE {404}) \cup {TransportFailure}
MachineVerbReplies(app, id) ==
    (IF MachineExists(app, id) THEN {200} ELSE {404}) \cup {TransportFailure}
DeleteAppReplies(app) ==
    (IF AppExists(app) THEN {200} ELSE {404}) \cup {TransportFailure}
ListAppsReplies == {200, TransportFailure}

SetMachineState(app, id, state) ==
    [i \in 1..Len(machines) |->
        IF machines[i].app = app /\ machines[i].id = id
        THEN [machines[i] EXCEPT !.state = state]
        ELSE machines[i]]

NewMachine(app, state, env) ==
    [id |-> NewMachineId, app |-> app, state |-> state, env |-> env]

(* ------------------------------------------------------------------ *)
(* make_api_request, pretty_print, sys.exit                             *)
(* ------------------------------------------------------------------ *)
\* the exchange of make_api_request: the request is sent and comes back with
\* `status` (an HTTP error and a transport failure come back as a status too)
Request(method, path, data, status) ==
    calls' = Append(calls, [method |-> method, path |-> path,
                            data |-> data, status |-> status])

Line(msg, args) == [msg |-> msg, args |-> args]
PrettyPrint(lines) == out' = out \o lines

Exit(code) == pc' = "exited" /\ exitCode' = code

\* the operation returns to its caller: the batch loop, or the end of the run
Return ==
    IF cmd = "batch"
    THEN pc' = "batch" /\ exitCode' = exitCode
    ELSE pc' = "done" /\ exitCode' = 0

(* ------------------------------------------------------------------ *)
(* Access Record Store: access.json of a student                        *)
(* ------------------------------------------------------------------ *)
\* json.dump of a dict: its members, in insertion order
JsonDump(members) == members

\* json.load: the dict the members spell (a later member wins)
JsonLoad(text) ==
    [k \in {text[i][1] : i \in 1..Len(text)} |->
        LET last == CHOOSE i \in 1..Len(text) :
                        text[i][1] = k /\ \A j \in (i + 1)..Len(text) : text[j][1] # k
        IN  text[last][2]]

\* dict.get(key, default)
DictGet(d, key, default) == IF key \in DOMAIN d THEN d[key] ELSE default

\* a record that does not keep the token
AccessInfoWithoutToken(sid, app, token) ==
    << <<"student_id", sid>>, <<"app_name", app>>,
       <<"url", AccessUrl(app, token)>>, <<"token", NoToken>> >>

AccessInfo(sid, app, token) ==
    << <<"student_id", sid>>, <<"app_name", app>>,
       <<"url", AccessUrl(app, token)>>, <<"token", token>> >>

\* the tokens held anywhere: in an access record, in a machine
TokensInUse ==
    {DictGet(JsonLoad(store[sid]), "token", NoToken) :
        sid \in {x \in DOMAIN store : store[x] # NoFile}}
    \cup {machines[i].env.JUPYTER_TOKEN : i \in 1..Len(machines)}

\* secrets.token_urlsafe(): a random token, so one that is held nowhere (the
\* first such token stands for all of them)
TokenUrlsafe ==
    LET n == CHOOSE k \in 1..(Cardinality(TokensInUse) + 1) :
                 /\ Token(k) \notin TokensInUse
                 /\ \A j \in 1..(k - 1) : Token(j) \in TokensInUse
    IN  Token(n)

(* ------------------------------------------------------------------ *)
(* create_app, create_volume, create_machine                            *)
(* ------------------------------------------------------------------ *)
\* a create function that takes every status for success
CreateOkAlways(status) == TRUE

\* the statuses the create functions take for success
CreateOk(status) == status \in {200, 201}

CreateApp(app, status) ==
    /\ status \in CreateAppReplies(app)
    /\ Request("POST", AppsPath, AppData(app), status)
    /\ apps' = IF status = 201 THEN Append(apps, app) ELSE apps
    /\ UNCHANGED <<volumes, machines>>

CreateVolume(app, name, status) ==
    /\ status \in CreateVolumeReplies(app)
    /\ Request("POST", VolumesPath(app), VolumeData(name), status)
    /\ volumes' = IF status = 200
                  THEN volumes \cup {[app |-> app, name |-> name]}
                  ELSE volumes
    /\ UNCHANGED <<apps, machines>>

CreateMachine(app, token, sid, status) ==
    /\ status \in CreateMachineReplies(app)
    /\ Request("POST", MachinesPath(app), MachineData(token, sid), status)
    /\ machines' = IF status = 200
                   THEN Append(machines,
                               NewMachine(app, "started", MachineData(token, sid).env))
                   ELSE machines
    /\ UNCHANGED <<apps, volumes>>

(* ------------------------------------------------------------------ *)
(* provision_jupyter                                                    *)
(* ------------------------------------------------------------------ *)
\* the existence check takes this status for "the Application exists"
AlreadyExists(status) == status = 200

\* the token and the existence check, and the short-circuit when it exists
ProvisionCheck ==
    /\ UNCHANGED <<wire, confirm>>
    /\ pc = "provision"
    /\ jupyter_token' = TokenUrlsafe
    /\ \E status \in GetAppReplies(app_name) :
        /\ Request("GET", AppPath(app_name), NoData, status)
        /\ IF AlreadyExists(status)
           THEN /\ PrettyPrint(<<Line("already exists", <<student_id>>),
                                 Line("access url", <<AccessUrl(app_name, jupyter_token')>>)>>)
                /\ Return
           ELSE /\ PrettyPrint(<<Line("creating", <<student_id>>)>>)
                /\ pc' = "create_app"
                /\ UNCHANGED exitCode
    /\ UNCHANGED <<remote, store, cmd, student_id, app_name, listed, idx, fileLen, lineNo, runs, ext>>

ProvisionCreateApp ==
    /\ UNCHANGED <<wire, confirm>>
    /\ pc = "create_app"
    /\ \E status \in CreateAppReplies(app_name) :
        /\ CreateApp(app_name, status)
        /\ IF CreateOk(status)
           THEN pc' = "create_volume" /\ UNCHANGED <<out, exitCode>>
           ELSE PrettyPrint(<<Line("failed to create app", <<>>)>>) /\ Exit(1)
    /\ UNCHANGED <<store, cmd, locals, runs, ext>>

ProvisionCreateVolume ==
    /\ UNCHANGED <<wire, confirm>>
    /\ pc = "create_volume"
    /\ \E status \in CreateVolumeReplies(app_name) :
        /\ CreateVolume(app_name, "user_data", status)
        /\ IF CreateOk(status)
           THEN pc' = "create_machine" /\ UNCHANGED <<out, exitCode>>
           ELSE PrettyPrint(<<Line("failed to create volume", <<>>)>>) /\ Exit(1)
    /\ UNCHANGED <<store, cmd, locals, runs, ext>>

\* the last create step and, when it succeeds, the report and the access record
ProvisionCreateMachine ==
    /\ UNCHANGED <<wire, confirm>>
    /\ pc = "create_machine"
    /\ \E status \in CreateMachineReplies(app_name) :
        /\ CreateMachine(app_name, jupyter_token, student_id, status)
        /\ IF CreateOk(status)
           THEN /\ PrettyPrint(<<Line("deployed", <<student_id>>),
                                 Line("access url", <<AccessUrl(app_name, jupyter_token)>>)>>)
                /\ store' = [store EXCEPT ![student_id] =
                                JsonDump(AccessInfo(student_id, app_name, jupyter_token))]
                /\ Return
           ELSE /\ PrettyPrint(<<Line("failed to create machine", <<>>)>>)
                /\ Exit(1)
                /\ UNCHANGED store
    /\ UNCHANGED <<cmd, locals, runs, ext>>

(* ------------------------------------------------------------------ *)
(* main: the batch command                                              *)
(* ------------------------------------------------------------------ *)
\* a line the loop looks at: not blank, and no comment
IsEntry(line) == Strip(line) # <<>> /\ ~StartsWith(line, "#")

\* a line the loop reports as invalid and skips
IsInvalid(parts) == Len(parts) < 2

\* one pass of the loop over the lines of the file: the next line is read, and
\* it is any line a file may hold (calls and out start over with every line)
BatchLine ==
    /\ UNCHANGED <<wire, confirm>>
    /\ pc = "batch"
    /\ lineNo < fileLen
    /\ lineNo' = lineNo + 1
    /\ calls' = <<>>
    /\ jupyter_token' = NoToken
    /\ \E line \in BatchLines :
        LET parts == Split(Strip(line), ",")
        IN  IF ~IsEntry(line)
            THEN out' = <<>> /\ UNCHANGED <<pc, student_id, app_name>>
            ELSE IF IsInvalid(parts)
            THEN /\ out' = <<Line("invalid line format", <<Str(Strip(line))>>)>>
                 /\ UNCHANGED <<pc, student_id, app_name>>
            ELSE /\ student_id' = Str(parts[1])
                 /\ app_name' = FLY_APP_PREFIX \o Str(parts[1])
                 /\ out' = <<Line("provisioning for", <<Str(parts[1])>>)>>
                 /\ pc' = "provision"
    /\ UNCHANGED <<remote, store, cmd, listed, idx, fileLen, exitCode, runs, ext>>

\* the file is read to its end: main returns
BatchEnd ==
    /\ UNCHANGED <<wire, confirm>>
    /\ pc = "batch"
    /\ lineNo = fileLen
    /\ pc' = "done"
    /\ exitCode' = 0
    /\ UNCHANGED <<remote, store, cmd, locals, calls, out, runs, ext>>

(* ------------------------------------------------------------------ *)
(* get_machines                                                         *)
(* ------------------------------------------------------------------ *)
\* the list get_machines returns for a reply with this status
GetMachines(app, status) == IF status # 200 THEN <<>> ELSE MachinesOf(app)

(* ------------------------------------------------------------------ *)
(* terminate_jupyter                                                    *)
(* ------------------------------------------------------------------ *)
\* the statuses the stop, start and delete calls take for success
VerbOk(status) == status \in {200, 204}

\* whether the stop loop issues a stop call for this machine of the list
StopIssued(machine) == TRUE

\* a stop loop that reports success only
StopReportSuccessOnly(machine_id, sid, status) ==
    <<Line("stopped machine", <<machine_id, sid>>)>>

\* what the stop loop prints for a machine after its stop call
StopReport(machine_id, sid, status) ==
    (IF ~VerbOk(status)
     THEN <<Line("failed to stop machine", <<machine_id, sid>>)>>
     ELSE <<>>)
    \o <<Line("stopped machine", <<machine_id, sid>>)>>

StopList ==
    /\ UNCHANGED <<wire, confirm>>
    /\ pc = "stop"
    /\ \E status \in ListMachinesReplies(app_name) :
        /\ Request("GET", MachinesPath(app_name), NoData, status)
        /\ listed' = GetMachines(app_name, status)
        /\ idx' = 1
        /\ IF listed' = <<>>
           THEN PrettyPrint(<<Line("no running machines", <<student_id>>)>>) /\ Return
           ELSE pc' = "stop_loop" /\ UNCHANGED <<out, exitCode>>
    /\ UNCHANGED <<remote, store, cmd, student_id, app_name, jupyter_token,
                   fileLen, lineNo, runs, ext>>

\* one pass of the loop over the machines of the list
StopMachine ==
    /\ UNCHANGED <<wire, confirm>>
    /\ pc = "stop_loop"
    /\ idx <= Len(listed)
    /\ idx' = idx + 1
    /\ LET machine_id == listed[idx].id
       IN  IF StopIssued(listed[idx])
           THEN \E status \in MachineVerbReplies(app_name, machine_id) :
                   /\ Request("POST", MachineVerbPath(app_name, machine_id, "stop"),
                              NoData, status)
                   /\ machines' = IF status = 200
                                  THEN SetMachineState(app_name, machine_id, "stopped")
                                  ELSE machines
                   /\ PrettyPrint(StopReport(machine_id, student_id, status))
           ELSE UNCHANGED <<calls, machines, out>>
    /\ IF idx' > Len(listed) THEN Return ELSE UNCHANGED <<pc, exitCode>>
    /\ UNCHANGED <<apps, volumes, store, cmd, student_id, app_name,
                   jupyter_token, listed, fileLen, lineNo, runs, ext>>

(* ------------------------------------------------------------------ *)
(* start_jupyter                                                        *)
(* ------------------------------------------------------------------ *)
\* a Start that takes only a 404 for a missing Application
NoInstanceOn404(status) == status = 404

\* app_result["status"] != 200
NoInstance(status) == status # 200

StartCheck ==
    /\ UNCHANGED <<wire, confirm>>
    /\ pc = "start"
    /\ \E status \in GetAppReplies(app_name) :
        /\ Request("GET", AppPath(app_name), NoData, status)
        /\ IF NoInstance(status)
           THEN PrettyPrint(<<Line("no instance found", <<student_id>>)>>) /\ Return
           ELSE pc' = "start_list" /\ UNCHANGED <<out, exitCode>>
    /\ UNCHANGED <<remote, store, cmd, locals, runs, ext>>

\* a start loop that issues a start call for every machine
StartIssuedAlways(machine) == TRUE

\* whether the start loop issues a start call for this machine of the list
StartIssued(machine) == machine.state # "started"

\* Start that never looks at access.json
RecreateTokenFresh(text, fresh) == fresh

\* the token of the machine Start recreates: the stored one when access.json
\* exists (the default of .get is produced, and used only without a "token"
\* member), else a new one
RecreateToken(text, fresh) ==
    IF text # NoFile THEN DictGet(JsonLoad(text), "token", fresh) ELSE fresh

\* the machine list; without machines, the token of the machine to recreate
StartList ==
    /\ UNCHANGED <<wire, confirm>>
    /\ pc = "start_list"
    /\ \E status \in ListMachinesReplies(app_name) :
        /\ Request("GET", MachinesPath(app_name), NoData, status)
        /\ listed' = GetMachines(app_name, status)
        /\ idx' = 1
        /\ IF listed' # <<>>
           THEN /\ pc' = "start_loop"
                /\ UNCHANGED jupyter_token
           ELSE /\ jupyter_token' = RecreateToken(store[student_id], TokenUrlsafe)
                /\ pc' = "start_create"
    /\ UNCHANGED <<remote, store, cmd, student_id, app_name, fileLen, lineNo, out, exitCode,
                   runs, ext>>

\* one pass of the loop over the machines of the list
StartMachine ==
    /\ UNCHANGED <<wire, confirm>>
    /\ pc = "start_loop"
    /\ idx <= Len(listed)
    /\ idx' = idx + 1
    /\ LET machine_id == listed[idx].id
       IN  IF StartIssued(listed[idx])
           THEN \E status \in MachineVerbReplies(app_name, machine_id) :
                   /\ Request("POST", MachineVerbPath(app_name, machine_id, "start"),
                              NoData, status)
                   /\ machines' = IF status = 200
                                  THEN SetMachineState(app_name, machine_id, "started")
                                  ELSE machines
                   /\ PrettyPrint((IF ~VerbOk(status)
                                   THEN <<Line("failed to start machine",
                                               <<machine_id, student_id>>)>>
                                   ELSE <<>>)
                                  \o <<Line("started machine", <<machine_id, student_id>>)>>)
           ELSE UNCHANGED <<calls, machines, out>>
    /\ IF idx' > Len(listed) THEN Return ELSE UNCHANGED <<pc, exitCode>>
    /\ UNCHANGED <<apps, volumes, store, cmd, student_id, app_name,
                   jupyter_token, listed, fileLen, lineNo, runs, ext>>

\* the Application has no machine: one is created
StartCreateMachine ==
    /\ UNCHANGED <<wire, confirm>>
    /\ pc = "start_create"
    /\ \E status \in CreateMachineReplies(app_name) :
        /\ CreateMachine(app_name, jupyter_token, student_id, status)
        /\ IF CreateOk(status)
           THEN /\ PrettyPrint(<<Line(IF store[student_id] # NoFile
                                      THEN "recreated machine"
                                      ELSE "created machine with new token",
                                      <<student_id>>)>>)
                /\ Return
           ELSE /\ PrettyPrint(<<Line("failed to create machine", <<>>)>>)
                /\ Exit(1)
    /\ UNCHANGED <<store, cmd, locals, runs, ext>>

(* ------------------------------------------------------------------ *)
(* delete_jupyter                                                       *)
(* ------------------------------------------------------------------ *)
\* what the operator may type at the confirmation prompt
Answers == {"y", "Y", "n", ""}
\* the prompt was not shown
NoAnswer == "-"

\* str.lower()
Lower(c) == IF c = "Y" THEN "y" ELSE c

\* a delete that asks and goes on whatever the answer
CanceledNever(answer) == FALSE

\* confirm.lower() != "y"
Canceled(answer) == Lower(answer) # "y"

DeleteJupyter ==
    /\ UNCHANGED wire
    /\ pc = "delete"
    /\ \E answer \in Answers :
        /\ confirm' = answer
        /\ IF Canceled(answer)
           THEN /\ PrettyPrint(<<Line("operation canceled", <<>>)>>)
                /\ UNCHANGED <<remote, calls>>
           ELSE \E status \in DeleteAppReplies(app_name) :
                   /\ Request("DELETE", AppPath(app_name), NoData, status)
                   /\ IF status = 200
                      THEN /\ apps' = SelectSeq(apps, LAMBDA a : a # app_name)
                           /\ volumes' = {v \in volumes : v.app # app_name}
                           /\ machines' = SelectSeq(machines, LAMBDA m : m.app # app_name)
                      ELSE UNCHANGED remote
                   /\ PrettyPrint((IF ~VerbOk(status)
                                   THEN <<Line("failed to delete instance", <<student_id>>)>>
                                   ELSE <<>>)
                                  \o <<Line("deleted instance", <<student_id>>)>>)
    /\ Return
    /\ UNCHANGED <<store, cmd, locals, runs, ext>>

(* ------------------------------------------------------------------ *)
(* list_instances                                                       *)
(* ------------------------------------------------------------------ *)
\* the student identifiers an Application name of the model can carry
NameTails == StudentIds \cup {""}

\* name.startswith(FLY_APP_PREFIX)
HasPrefix(name) == \E t \in NameTails : name = FLY_APP_PREFIX \o t

\* name.replace(FLY_APP_PREFIX, "") of a name that starts with the prefix
WithoutPrefix(name) == CHOOSE t \in NameTails : name = FLY_APP_PREFIX \o t

\* a status taken from the last machine of the list
InstanceStatusLast(found) ==
    IF found # <<>> THEN found[Len(found)].state ELSE "unavailable"

\* the status of an instance: the state of the first machine, if any
InstanceStatus(found) ==
    IF found # <<>> THEN found[1].state ELSE "unavailable"

ListApps ==
    /\ UNCHANGED <<wire, confirm>>
    /\ pc = "list"
    /\ \E status \in ListAppsReplies :
        /\ Request("GET", AppsPath, NoData, status)
        /\ IF status # 200
           THEN /\ PrettyPrint(<<Line("failed to list apps", <<>>)>>)
                /\ UNCHANGED <<listed, idx>>
                /\ Return
           ELSE LET jupyter_instances == SelectSeq(apps, HasPrefix)
                IN  IF jupyter_instances = <<>>
                    THEN /\ PrettyPrint(<<Line("no instances found", <<>>)>>)
                         /\ UNCHANGED <<listed, idx>>
                         /\ Return
                    ELSE /\ PrettyPrint(<<Line("instances", <<>>)>>)
                         /\ listed' = jupyter_instances
                         /\ idx' = 1
                         /\ pc' = "list_loop"
                         /\ UNCHANGED exitCode
    /\ UNCHANGED <<remote, store, cmd, student_id, app_name, jupyter_token,
                   fileLen, lineNo, runs, ext>>

\* one pass of the loop over the instances
ListInstance ==
    /\ UNCHANGED <<wire, confirm>>
    /\ pc = "list_loop"
    /\ idx <= Len(listed)
    /\ idx' = idx + 1
    /\ \E status \in ListMachinesReplies(listed[idx]) :
        /\ Request("GET", MachinesPath(listed[idx]), NoData, status)
        /\ PrettyPrint(<<Line("instance",
               <<WithoutPrefix(listed[idx]), listed[idx],
                 InstanceStatus(GetMachines(listed[idx], status))>>)>>)
    /\ IF idx' > Len(listed) THEN Return ELSE UNCHANGED <<pc, exitCode>>
    /\ UNCHANGED <<remote, store, cmd, student_id, app_name, jupyter_token,
                   listed, fileLen, lineNo, runs, ext>>

(* ------------------------------------------------------------------ *)
(* Process runs                                                         *)
(* ------------------------------------------------------------------ *)
Operations == {"provision", "stop", "start", "delete"}

Idle == pc \in {"idle", "done", "exited", "crashed"}

\* a process starts: nothing is printed or requested yet, the locals are unset
Fresh ==
    /\ runs' = runs + 1
    /\ calls' = <<>>
    /\ out' = <<>>
    /\ exitCode' = -1
    /\ jupyter_token' = NoToken
    /\ listed' = <<>>
    /\ confirm' = NoAnswer
    /\ UNCHANGED <<remote, store, ext>>

\* an operation is called for a student, with app_name = prefix + student_id
Called ==
    /\ UNCHANGED wire
    /\ Idle
    /\ \E op \in Operations, sid \in StudentIds :
        /\ cmd' = op
        /\ pc' = op
        /\ student_id' = sid
        /\ app_name' = FLY_APP_PREFIX \o sid
    /\ idx' = 1
    /\ fileLen' = 0
    /\ lineNo' = 0
    /\ Fresh

CallOperation ==
    /\ runs < MaxRuns
    /\ Called

\* the attributes parse_args gives args for a single-student command: the
\* arguments its subparser declares
ArgsOf(command) ==
    IF command = "provision"
    THEN {"command", "student_id", "resource_limit"}
    ELSE {"command", "student_id"}

\* the locals of main that are bound when it gets to the match statement
\* (student_id is a local of main: the batch branch assigns it)
BoundLocals == {"parser", "subparsers", "args"}

\* what main evaluates to build the call of the operation, in that order:
\* one read for each argument it passes
DispatchReads(command) ==
    IF command = "provision"
    THEN <<[of |-> "args", name |-> "student_id"],
           [of |-> "args", name |-> "course_id"],
           [of |-> "args", name |-> "resource_limit"],
           [of |-> "main", name |-> "student_id"]>>
    ELSE <<[of |-> "args", name |-> "student_id"],
           [of |-> "main", name |-> "student_id"]>>

\* the parameters of the operations: student_id, app_name
Parameters == <<"student_id", "app_name">>

\* the exception a read raises, or "none"
ReadFailure(command, read) ==
    IF read.of = "args"
    THEN IF read.name \in ArgsOf(command) THEN "none" ELSE "AttributeError"
    ELSE IF read.name \in BoundLocals THEN "none" ELSE "UnboundLocalError"

\* the exception the dispatch of a command raises before the operation runs:
\* that of the first read that fails, else that of a call with the wrong
\* number of arguments, else "none"
DispatchFailure(command) ==
    LET reads == DispatchReads(command)
        failing == {i \in 1..Len(reads) : ReadFailure(command, reads[i]) # "none"}
    IN  IF failing # {}
        THEN ReadFailure(command, reads[CHOOSE i \in failing : \A j \in failing : i <= j])
        ELSE IF Len(reads) # Len(Parameters) THEN "TypeError"
        ELSE "none"

\* main on a single-student command: an exception that nothing catches ends
\* the process with a traceback and exit status 1
MainCommand ==
    /\ UNCHANGED wire
    /\ Idle
    /\ runs < MaxRuns
    /\ \E command \in Operations, sid \in StudentIds :
        /\ cmd' = command
        /\ IF DispatchFailure(command) # "none"
           THEN /\ pc' = "crashed"
                /\ out' = <<Line("traceback", <<DispatchFailure(command)>>)>>
                /\ exitCode' = 1
                /\ student_id' = ""
                /\ app_name' = ""
           ELSE /\ pc' = command
                /\ out' = <<>>
                /\ exitCode' = -1
                /\ student_id' = sid
                /\ app_name' = FLY_APP_PREFIX \o sid
    /\ runs' = runs + 1
    /\ calls' = <<>>
    /\ jupyter_token' = NoToken
    /\ listed' = <<>>
    /\ confirm' = NoAnswer
    /\ idx' = 1
    /\ fileLen' = 0
    /\ lineNo' = 0
    /\ UNCHANGED <<remote, store, ext>>

\* the list command
MainList ==
    /\ UNCHANGED wire
    /\ Idle
    /\ runs < MaxRuns
    /\ cmd' = "list"
    /\ pc' = "list"
    /\ student_id' = ""
    /\ app_name' = ""
    /\ idx' = 1
    /\ fileLen' = 0
    /\ lineNo' = 0
    /\ Fresh

\* the batch command, on a file of lines
MainBatch ==
    /\ UNCHANGED wire
    /\ Idle
    /\ runs < MaxRuns
    /\ \E n \in 0..MaxLines : fileLen' = n
    /\ lineNo' = 0
    /\ idx' = 1
    /\ cmd' = "batch"
    /\ pc' = "batch"
    /\ student_id' = ""
    /\ app_name' = ""
    /\ Fresh

(* ------------------------------------------------------------------ *)
(* The external actor: a human or another process on the same platform  *)
(* ------------------------------------------------------------------ *)
ExternalNames == {FLY_APP_PREFIX \o sid : sid \in StudentIds}

ExternalCreateApp ==
    /\ UNCHANGED <<wire, confirm>>
    /\ ext < MaxExternal
    /\ \E name \in ExternalNames :
        /\ ~AppExists(name)
        /\ apps' = Append(apps, name)
    /\ ext' = ext + 1
    /\ UNCHANGED <<volumes, machines, store, pc, cmd, locals,
                   calls, out, exitCode, runs>>

ExternalCreateMachine ==
    /\ UNCHANGED <<wire, confirm>>
    /\ ext < MaxExternal
    /\ \E i \in 1..Len(apps), state \in {"started", "stopped"} :
        machines' = Append(machines,
                       NewMachine(apps[i], state, [JUPYTER_TOKEN |-> "external",
                                                   STUDENT_ID |-> "external"]))
    /\ ext' = ext + 1
    /\ UNCHANGED <<apps, volumes, store, pc, cmd, locals,
                   calls, out, exitCode, runs>>

ExternalStopMachine ==
    /\ UNCHANGED <<wire, confirm>>
    /\ ext < MaxExternal
    /\ \E i \in 1..Len(machines) :
        /\ machines[i].state = "started"
        /\ machines' = [machines EXCEPT ![i].state = "stopped"]
    /\ ext' = ext + 1
    /\ UNCHANGED <<apps, volumes, store, pc, cmd, locals,
                   calls, out, exitCode, runs>>

ExternalDestroyMachine ==
    /\ UNCHANGED <<wire, confirm>>
    /\ ext < MaxExternal
    /\ \E i \in 1..Len(machines) :
        machines' = SubSeq(machines, 1, i - 1) \o SubSeq(machines, i + 1, Len(machines))
    /\ ext' = ext + 1
    /\ UNCHANGED <<apps, volumes, store, pc, cmd, locals,
                   calls, out, exitCode, runs>>

(* ------------------------------------------------------------------ *)
(* Specification                                                        *)
(* ------------------------------------------------------------------ *)
\* an environment with every required variable set
Configured == [FLY_API_TOKEN |-> "secret", others |-> TRUE, script |-> TRUE]
NoRequest == <<>>
NoResult == <<>>

\* an Application of the organization that is no workspace
OtherApp == "other"

\* the lifecycle before any run
InitLifecycle ==
    /\ apps = <<OtherApp>>
    /\ volumes = {}
    /\ machines = <<>>
    /\ store = [sid \in NameTails |-> NoFile]
    /\ pc = "idle"
    /\ cmd = "none"
    /\ student_id = ""
    /\ app_name = ""
    /\ jupyter_token = NoToken
    /\ listed = <<>>
    /\ idx = 1
    /\ fileLen = 0
    /\ lineNo = 0
    /\ calls = <<>>
    /\ out = <<>>
    /\ exitCode = -1
    /\ runs = 0
    /\ ext = 0
    /\ confirm = NoAnswer

\* every run of the lifecycle has its environment set; its requests are the
\* steps of the operations
Init ==
    /\ InitLifecycle
    /\ environ = Configured
    /\ rpc = "unused"
    /\ request = NoRequest
    /\ result = NoResult

Next ==
    \/ CallOperation
    \/ MainCommand
    \/ MainList
    \/ MainBatch
    \/ ProvisionCheck
    \/ ProvisionCreateApp
    \/ ProvisionCreateVolume
    \/ ProvisionCreateMachine
    \/ BatchLine
    \/ BatchEnd
    \/ StopList
    \/ StopMachine
    \/ StartCheck
    \/ StartList
    \/ StartMachine
    \/ StartCreateMachine
    \/ DeleteJupyter
    \/ ListApps
    \/ ListInstance
    \/ ExternalCreateApp
    \/ ExternalCreateMachine
    \/ ExternalStopMachine
    \/ ExternalDestroyMachine

Spec == Init /\ [][Next]_vars

(* ------------------------------------------------------------------ *)
(* Vocabulary of the properties                                         *)
(* ------------------------------------------------------------------ *)
\* calls and out are those of a run of provision_jupyter
InProvision == cmd \in {"provision", "batch"}

IsCreateApp(c) == c.method = "POST" /\ c.path = AppsPath
IsCreateVolume(c) == c.method = "POST" /\ c.path = VolumesPath(app_name)
IsCreateMachine(c) == c.method = "POST" /\ c.path = MachinesPath(app_name)
IsCreate(c) == IsCreateApp(c) \/ IsCreateVolume(c) \/ IsCreateMachine(c)
IsStop(c, id) == c.method = "POST" /\ c.path = MachineVerbPath(app_name, id, "stop")
IsRemoval(c) == c.method = "DELETE"

Is2xx(status) == status \in 200..299

CreateCalls == SelectSeq(calls, IsCreate)
CreateMachineCalls == SelectSeq(calls, IsCreateMachine)
PostCalls == SelectSeq(calls, LAMBDA c : c.method = "POST")

Printed(msg) == \E i \in 1..Len(out) : out[i].msg = msg
PrintedFor(msg, args) == \E i \in 1..Len(out) : out[i] = Line(msg, args)

\* the operation or the process has ended
Ended == pc \in {"done", "exited"}

\* the access record of the student the operation is about
Record == JsonLoad(store[student_id])
HasRecord == store[student_id] # NoFile

\* provision_jupyter has just reported the deployment
Deployed ==
    /\ InProvision
    /\ pc \in {"done", "batch"}
    /\ Printed("deployed")

(* ------------------------------------------------------------------ *)
(* C1                                                                   *)
(* ------------------------------------------------------------------ *)
\* C1 (as claimed): a Provision of a student who has been provisioned before
\* (the access record exists) and whose Application still exists takes the
\* "already exists" short-circuit: its next step returns, having printed
\* "already exists", and leads to no create call and no write of the record.
C1_SecondProvisionShortCircuits ==
    [][ (pc = "provision" /\ HasRecord /\ AppExists(app_name) /\ pc' # pc)
        => /\ pc' \in {"done", "batch"}
           /\ \E i \in 1..Len(out') : out'[i].msg = "already exists"
           /\ store' = store ]_vars

(* ------------------------------------------------------------------ *)
(* C2                                                                   *)
(* ------------------------------------------------------------------ *)
\* the create calls of a Provision, in the order they must come
CreateOrder == <<AppsPath, VolumesPath(app_name), MachinesPath(app_name)>>

FailureLines == {"failed to create app", "failed to create volume",
                 "failed to create machine"}

\* a create call of Provision that came back with a status outside 2xx
FailedCreate(c) == IsCreate(c) /\ ~Is2xx(c.status)

\* after a failed create nothing more is requested: the call is the last one,
\* the failure is the last thing printed, the process has ended, and no
\* removal was requested
C3_NothingAfterFailure ==
    InProvision =>
        \A i \in 1..Len(calls) :
            FailedCreate(calls[i]) =>
                /\ i = Len(calls)
                /\ pc = "exited"
                /\ out # <<>>
                /\ out[Len(out)].msg \in FailureLines
                /\ ~Printed("deployed")
                /\ \A j \in 1..Len(calls) : ~IsRemoval(calls[j])

\* the step of a failed create writes no access record and leaves the
\* resources created before on the platform
C3_FailedStep ==
    (/\ InProvision
     /\ calls' # calls
     /\ calls' # <<>>
     /\ FailedCreate(calls'[Len(calls')]))
    => /\ store' = store
       /\ apps' = apps
       /\ volumes' = volumes
       /\ machines' = machines

C4_BatchSurvivesFailure ==
    (cmd = "batch" /\ Ended) => (exitCode = 0 /\ lineNo = fileLen)

(* ------------------------------------------------------------------ *)
(* C5                                                                   *)
(* ------------------------------------------------------------------ *)
\* C5 (as claimed): the access URL that the "already exists" short-circuit
\* reports for a student with an access record carries the token of that
\* record, the one generated at the first provisioning.
C5_ShortCircuitReportsStoredToken ==
    (InProvision /\ Printed("already exists") /\ HasRecord)
        => PrintedFor("access url", <<AccessUrl(app_name, Record["token"])>>)

NotStopped == SelectSeq(listed, LAMBDA m : m.state # "stopped")

\* C7 (as claimed): Stop issues a stop call only for the machines of its list
\* that are not stopped already: when it has ended it has issued one stop call
\* for each of those and none for a machine that was stopped.
C7_StopSkipsStopped ==
    (cmd = "stop" /\ Ended) =>
        /\ Len(PostCalls) = Len(NotStopped)
        /\ \A i \in 1..Len(listed) :
               listed[i].state = "stopped"
                   => \A j \in 1..Len(calls) : ~IsStop(calls[j], listed[i].id)

Conflict ==
    /\ InProvision
    /\ Len(calls) >= 2
    /\ calls[1].status # 200
    /\ IsCreateApp(calls[2])
    /\ calls[2].status = 422

\* C9 (as claimed): Provision never issues create-Application after its own
\* check came back with 200, and a create-Application that fails because the
\* Application came into being after the check is reported without ending
\* the process abnormally.
C9_ConflictIsReportedNotFatal ==
    /\ InProvision =>
           \A i \in 1..Len(calls) :
               IsCreateApp(calls[i]) => calls[1].status # 200
    /\ Conflict =>
           /\ Printed("failed to create app")
           /\ pc # "exited"
           /\ exitCode # 1

(* ------------------------------------------------------------------ *)
(* C10                                                                  *)
(* ------------------------------------------------------------------ *)
\* C10 (as claimed): a batch entry with an empty student identifier, like one
\* that lacks a field, is reported as malformed and skipped: Provision is not
\* entered for it and no request is sent for it.
C10_EmptyIdentifierSkipped ==
    cmd = "batch" =>
        /\ ~(pc = "provision" /\ student_id = "")
        /\ \A i \in 1..Len(calls) : calls[i].path # AppPath(FLY_APP_PREFIX)
        /\ Printed("invalid line format") => (calls = <<>> /\ pc \in {"batch", "done"})

(* ------------------------------------------------------------------ *)
(* C11                                                                  *)
(* ------------------------------------------------------------------ *)
\* the answers that confirm a delete
Confirming == {"y", "Y"}

\* a Delete that has ended on an answer that does not confirm has issued no
\* request and has printed the cancellation, nothing else
C11_CanceledDeleteEnded ==
    (cmd = "delete" /\ pc = "done" /\ confirm \notin Confirming)
        => /\ calls = <<>>
           /\ out = <<Line("operation canceled", <<>>)>>
           /\ exitCode = 0

\* the step of Delete on an answer that does not confirm leaves the platform
\* and the access records as they were
C11_CanceledDeleteStep ==
    (pc = "delete" /\ pc' # pc /\ confirm' \notin Confirming)
        => /\ remote' = remote
           /\ store' = store
           /\ calls' = <<>>

\* C11: Delete on any answer other than 'y' or 'Y' issues no remote call,
\* leaves the remote state and the access records unchanged and ends with the
\* cancellation report.
C11_DeleteWithoutConfirmation ==
    []C11_CanceledDeleteEnded /\ [][C11_CanceledDeleteStep]_vars

\* bob is provisioned and the operator answers 'n' to Delete: the workspace
\* and the record are still there
C11_Witness ==
    /\ cmd = "delete"
    /\ pc = "done"
    /\ confirm = "n"
    /\ AppExists(app_name)
    /\ HasRecord
    /\ Printed("operation canceled")

(* ------------------------------------------------------------------ *)
(* C12                                                                  *)
(* ------------------------------------------------------------------ *)
IsStart(c, id) == c.method = "POST" /\ c.path = MachineVerbPath(app_name, id, "start")

\* the machines of the list Start fetched that were not reported as started
NotStarted == SelectSeq(listed, LAMBDA m : m.state # "started")

FLY_API_HOST == "api.machines.dev"

\* a member of the HTTPMethod enumeration, and a plain string
Member(name) == [type |-> "HTTPMethod", text |-> name]
PlainStr(text) == [type |-> "str", text |-> text]

\* class HTTPMethod(str, Enum)
HTTPMethod == {Member(name) : name \in {"GET", "POST", "PUT", "DELETE"}}

\* the methods the call sites of the module pass: string literals
CallSiteMethods == {PlainStr(text) : text \in {"GET", "POST", "DELETE"}}

\* a member of an enumeration has the attribute value; a str has not
HasValue(method) == method.type = "HTTPMethod"

\* the arguments of the calls
Methods == HTTPMethod \cup CallSiteMethods
Paths == {AppsPath, AppPath(FLY_APP_PREFIX \o "bob")}
Payloads == {NoData, AppData(FLY_APP_PREFIX \o "bob")}

\* the environments the process can start in
Environments ==
    [FLY_API_TOKEN : {"", "secret"}, others : BOOLEAN, script : BOOLEAN]

NoHeaders == <<>>
\* headers["Authorization"], headers["Content-Type"]
WithCredential(headers, token) ==
    [k \in DOMAIN headers \cup {"Authorization", "Content-Type"} |->
        IF k = "Authorization" THEN "Bearer " \o token
        ELSE IF k = "Content-Type" THEN "application/json"
        ELSE headers[k]]

\* the body of a reply: bytes that are valid UTF-8 or not, and the text they spell
Bodies ==
    { [utf8 |-> TRUE, text |-> "{}"],
      [utf8 |-> TRUE, text |-> "oops"],
      [utf8 |-> FALSE, text |-> ""] }
NoBody == [utf8 |-> TRUE, text |-> ""]

\* what urlopen can meet: a response (urlopen returns for a 2xx status), an
\* HTTPError (it raises for the others), a URLError (no connection), or a
\* peer that never answers
Replies ==
    {[kind |-> "response", code |-> c, body |-> b] :
        c \in {200, 201, 202, 204}, b \in Bodies}
    \cup {[kind |-> "HTTPError", code |-> c, body |-> b] :
        c \in {404, 422}, b \in Bodies}
    \cup {[kind |-> k, code |-> 0, body |-> NoBody] : k \in {"URLError", "silent"}}

\* the outcome of an expression: its value, or the exception it raised (a
\* text is [text |-> t], a parsed JSON value [json |-> t], None [none |-> TRUE])
Returned(value) == [raised |-> FALSE, value |-> value]
Raised(exception) == [raised |-> TRUE, value |-> [exception |-> exception]]

\* bytes.decode("utf-8")
Decode(body) ==
    IF body.utf8 THEN Returned(body.text) ELSE Raised("UnicodeDecodeError")

\* json.loads
JsonTexts == {"{}"}
JsonLoads(text) ==
    IF text \in JsonTexts THEN Returned([json |-> text]) ELSE Raised("JSONDecodeError")

\* a request built without a credential check
CredentialNeverMissing(token) == FALSE

\* not FLY_API_TOKEN
CredentialMissing(token) == token = ""

\* the timeout urlopen waits with: none is passed, and the default of the
\* socket module is never set
NoTimeout == "None"
UrlopenTimeout == NoTimeout

\* the with-block: the result for a response, or the exception raised in it
ReadResponse(reply) ==
    IF reply.code \notin {200, 201, 204}
    THEN LET text == Decode(reply.body)
         IN  IF text.raised THEN text
             ELSE Returned([status |-> reply.code, error |-> [text |-> text.value]])
    ELSE IF reply.code = 204
    THEN Returned([status |-> reply.code, data |-> [none |-> TRUE]])
    ELSE LET text == Decode(reply.body)
             data == JsonLoads(text.value)
         IN  IF text.raised THEN text
             ELSE IF data.raised THEN data
             ELSE Returned([status |-> reply.code, data |-> data.value])

\* except urllib.error.HTTPError: an exception raised in the handler is not
\* caught by the handler next to it
HandleHTTPError(reply) ==
    LET error_body == Decode(reply.body)
        error_json == JsonLoads(error_body.value)
    IN  IF error_body.raised THEN error_body
        ELSE IF error_json.raised
        THEN Returned([status |-> reply.code, error |-> [text |-> error_body.value]])
        ELSE Returned([status |-> reply.code, error |-> error_json.value])

\* except Exception
HandleException(e) == Returned([status |-> TransportFailure, error |-> [message |-> e]])

\* the try statement for a reply that comes
Exchange(reply) ==
    CASE reply.kind = "response" ->
            LET r == ReadResponse(reply)
            IN  IF r.raised THEN HandleException(r.value.exception) ELSE r
      [] reply.kind = "HTTPError" -> HandleHTTPError(reply)
      [] reply.kind = "URLError" -> HandleException("URLError")
      [] reply.kind = "silent" -> HandleException("timed out")

\* run as a script, the module checks its environment before main()
MainGuard ==
    /\ rpc = "start"
    /\ rpc' = IF environ.others /\ environ.FLY_API_TOKEN # ""
              THEN "idle"
              ELSE "exited"
    /\ UNCHANGED <<environ, request, result, lifecycle>>

\* an operation calls make_api_request
MakeApiRequest ==
    /\ rpc = "idle"
    /\ \E method \in Methods, path \in Paths, data \in Payloads :
        request' = [method |-> method, path |-> path, data |-> data,
                    headers |-> NoHeaders, url |-> "", verb |-> ""]
    /\ rpc' = "check"
    /\ UNCHANGED <<environ, result, lifecycle>>

\* the check of the credential, and the two headers
CheckCredential ==
    /\ rpc = "check"
    /\ IF CredentialMissing(environ.FLY_API_TOKEN)
       THEN /\ rpc' = "exited"
            /\ UNCHANGED request
       ELSE /\ request' = [request EXCEPT
                              !.headers = WithCredential(@, environ.FLY_API_TOKEN)]
            /\ rpc' = "build"
    /\ UNCHANGED <<environ, result, lifecycle>>

\* urllib.request.Request(url=..., method=method.value)
BuildRequest ==
    /\ rpc = "build"
    /\ IF HasValue(request.method)
       THEN /\ request' = [request EXCEPT
                              !.url = "https://" \o FLY_API_HOST \o request.path,
                              !.verb = request.method.text]
            /\ rpc' = "open"
            /\ UNCHANGED result
       ELSE /\ result' = Raised("AttributeError")
            /\ rpc' = "raised"
            /\ UNCHANGED request
    /\ UNCHANGED <<environ, lifecycle>>

\* urlopen(request) and what the try statement makes of it; without a
\* timeout, a peer that never answers is waited for without end
Urlopen ==
    /\ rpc = "open"
    /\ \E reply \in Replies :
        IF reply.kind = "silent" /\ UrlopenTimeout = NoTimeout
        THEN /\ rpc' = "blocked"
             /\ UNCHANGED result
        ELSE /\ result' = Exchange(reply)
             /\ rpc' = IF Exchange(reply).raised THEN "raised" ELSE "returned"
    /\ UNCHANGED <<environ, request, lifecycle>>

InitRequest ==
    /\ InitLifecycle
    /\ environ \in Environments
    /\ rpc = IF environ.script THEN "start" ELSE "idle"
    /\ request = NoRequest
    /\ result = NoResult

NextRequest ==
    \/ MainGuard
    \/ MakeApiRequest
    \/ CheckCredential
    \/ BuildRequest
    \/ Urlopen

RequestSpec == InitRequest /\ [][NextRequest]_vars

\* the process runs on: a step it can take is taken
FairRequestSpec == RequestSpec /\ WF_vars(NextRequest)

\* the request was handed to urlopen
Sent == rpc \in {"open", "blocked", "returned", "raised"} /\ request.verb # ""

(* ------------------------------------------------------------------ *)
(* C14                                                                  *)
(* ------------------------------------------------------------------ *)
\* the result of a call that returned: a status with data, for the success
\* statuses only, or a status with an error
WellFormed(r) ==
    \/ DOMAIN r = {"status", "data"} /\ r.status \in {200, 201, 204}
    \/ DOMAIN r = {"status", "error"} /\ r.status \notin {200, 201, 204}

\* C14 (as claimed): a call of make_api_request with the credential set never
\* raises, whatever the reply: it returns a status with exactly one of data
\* (only for 200, 201, 204) and error.
C14_RequestNeverRaises ==
    /\ rpc # "raised"
    /\ rpc = "returned" => (~result.raised /\ WellFormed(result.value))

(* ------------------------------------------------------------------ *)
(* C15                                                                  *)
(* ------------------------------------------------------------------ *)
\* C15 (as claimed): a request handed to urlopen comes back, with a result or
\* with an exception, whatever the platform does: if the platform never
\* answers, the call still ends.
C15_EveryRequestEnds == Sent ~> (rpc \in {"returned", "raised"})

(* ------------------------------------------------------------------ *)
(* C16                                                                  *)
(* ------------------------------------------------------------------ *)
\* C16: no request is handed to urlopen with FLY_API_TOKEN unset, and every
\* request that is carries "Bearer " + FLY_API_TOKEN and a JSON content type;
\* without the credential the call ends the process before the request is
\* built, and a process run as a script does not get to the call at all.
C16_CredentialOnEveryRequest ==
    /\ Sent =>
           /\ environ.FLY_API_TOKEN # ""
           /\ request.headers["Authorization"] = "Bearer " \o environ.FLY_API_TOKEN
           /\ request.headers["Content-Type"] = "application/json"
    /\ environ.FLY_API_TOKEN = "" =>
           /\ rpc \in {"start", "idle", "check", "exited"}
           /\ request # NoRequest => (request.verb = "" /\ request.headers = NoHeaders)
           /\ environ.script => (rpc \in {"start", "exited"} /\ request = NoRequest)

\* a request with the credential came back with a success status
C16_Witness ==
    /\ rpc = "returned"
    /\ Sent
    /\ result.value.status = 200
    /\ request.headers["Authorization"] = "Bearer secret"

(* ------------------------------------------------------------------ *)
(* C17                                                                  *)
(* ------------------------------------------------------------------ *)
\* C17 (as claimed): main on a single-student command (provision, stop,
\* start, delete) gets to the operation of that command, with the student_id
\* of the command line and app_name = prefix + student_id, and does not end
\* in an exception that nothing handles.
C17_CommandRunsItsOperation ==
    /\ pc # "crashed"
    /\ ~Printed("traceback")
    /\ cmd \in Operations => app_name = FLY_APP_PREFIX \o student_id

(* ------------------------------------------------------------------ *)
(* C18                                                                  *)
(* ------------------------------------------------------------------ *)
\* the Applications of a list whose name starts with the workspace prefix, in
\* the order of the list
Workspaces(appList) ==
    SelectSeq(appList, LAMBDA a : \E tail \in NameTails : a = FLY_APP_PREFIX \o tail)

\* the lines List has printed for instances
InstanceLines == SelectSeq(out, LAMBDA l : l.msg = "instance")

\* List only reads; when it has ended after a list with workspaces in it, it
\* has printed one line for each of them, in the order of the list, after one
\* machine-list request for each
C18_ListEnded ==
    cmd = "list" =>
        /\ \A i \in 1..Len(calls) : calls[i].method = "GET"
        /\ Len(InstanceLines) <= Len(listed)
        /\ \A i \in 1..Len(InstanceLines) : InstanceLines[i].args[2] = listed[i]
        /\ pc = "done" =>
               /\ Len(InstanceLines) = Len(listed)
               /\ Len(calls) = 1 + Len(listed)

\* the list request: the instances are the Applications of the reply that
\* carry the prefix
C18_ListAppsStep ==
    (cmd = "list" /\ pc = "list" /\ pc' # pc /\ calls'[1].status = 200)
        => IF Workspaces(apps) = <<>>
           THEN pc' = "done" /\ listed' = <<>>
           ELSE pc' = "list_loop" /\ listed' = Workspaces(apps)

\* a pass of the loop: the line of the instance carries the state of the
\* first machine the platform returns for it, or 'unavailable' without
\* machines or with a failed request
C18_ListInstanceStep ==
    (cmd = "list" /\ pc = "list_loop" /\ idx' = idx + 1)
        => LET c == calls'[Len(calls')]
               line == out'[Len(out')]
           IN  /\ c.path = MachinesPath(listed[idx])
               /\ line.msg = "instance"
               /\ line.args[2] = listed[idx]
               /\ line.args[3] =
                      IF c.status = 200 /\ MachinesOf(listed[idx]) # <<>>
                      THEN MachinesOf(listed[idx])[1].state
                      ELSE "unavailable"
               /\ remote' = remote

NextOperation ==
    /\ runs < MaxOperations
    /\ Called

NextLifecycle ==
    \/ NextOperation
    \/ ProvisionCheck
    \/ ProvisionCreateApp
    \/ ProvisionCreateVolume
    \/ ProvisionCreateMachine
    \/ StopList
    \/ StopMachine
    \/ StartCheck
    \/ StartList
    \/ StartMachine
    \/ StartCreateMachine
    \/ DeleteJupyter
    \/ ExternalStopMachine
    \/ ExternalDestroyMachine

LifecycleSpec == Init /\ [][NextLifecycle]_vars

C20_SuccessOnlyAfterSuccess ==
    /\ cmd = "stop" =>
           \A i \in 1..Len(PostCalls) :
               ~VerbOk(PostCalls[i].status)
                   => /\ PrintedFor("failed to stop machine", <<listed[i].id, student_id>>)
                      /\ ~PrintedFor("stopped machine", <<listed[i].id, student_id>>)
    /\ (cmd = "start" /\ listed # <<>>) =>
           \A i \in 1..Len(PostCalls) :
               ~VerbOk(PostCalls[i].status)
                   => /\ PrintedFor("failed to start machine",
                                    <<NotStarted[i].id, student_id>>)
                      /\ ~PrintedFor("started machine", <<NotStarted[i].id, student_id>>)
    /\ cmd = "delete" =>
           \A i \in 1..Len(calls) :
               ~VerbOk(calls[i].status)
                   => /\ PrintedFor("failed to delete instance", <<student_id>>)
                      /\ ~PrintedFor("deleted instance", <<student_id>>)

====
